---------------------------- MODULE Spec2Model ----------------------------
(***************************************************************************)
(* Model of the streaming UBX frame parser of ublox/src/parser.rs:         *)
(* the UnderlyingBuffer trait with its two implementations (Vec<u8> and    *)
(* FixedLinearBuffer), Parser::consume, ParserIter::next and the Drop      *)
(* implementation of ParserIter.                                           *)
(*                                                                         *)
(* Rust slices are 0-based and half-open; TLA+ sequences are 1-based.      *)
(* At and Slice do the conversion so that every index below is written as  *)
(* it is in the source.                                                    *)
(***************************************************************************)
EXTENDS Integers, Sequences, FiniteSets, TLC

VARIABLES
    buf,        \* Parser.buf: [kind, buffer, len]
    iter,       \* the outstanding ParserIter: [live, off, none]
    stream,     \* bytes the transport has not handed to consume yet
    whole,      \* every byte the transport delivers in this run
    out,        \* the Some(..) results yielded by next() so far, in order
    calls,      \* consume calls so far: 0, 1, or 2 for two and more
    exhausted,  \* every iterator dropped so far had returned None before
    last,       \* the latest operation: [op, pre, arg, res, n]
    fault       \* a panic was raised

vars == <<buf, iter, stream, whole, out, calls, exhausted, last, fault>>

----------------------------------------------------------------------------
(* Bounds of the model *)

\* longest noise string (bytes drawn from NoiseBytes) in an input
MaxNoise == 4
\* most segments (frames, headers, stray bytes) concatenated in an input
MaxSegs == 2
\* longest input of a run, in bytes
MaxInput == 21
\* longest slice handed to consume, except the whole remaining stream
MaxChunk == 2
\* longest Vec<u8> the direct buffer operations of BufSpec build
MaxVecLen == 5
\* size of the region FixedLinearBuffer::new is given in BufSpec
MaxRegion == 4
\* longest slice given to extend_from_slice in BufSpec
MaxSlice == 3

----------------------------------------------------------------------------
(* Protocol constants and collaborators imported from ubx_packets *)

SYNC_CHAR_1 == 181
SYNC_CHAR_2 == 98
MAX_PAYLOAD_LEN == 1240
\* usize::MAX, the sentinel Vec<u8>::max_capacity returns.  Any value above
\* 65535 + 8 behaves alike, since pack_len is read from a u16.
USIZE_MAX == 2147483647

Min(a, b) == IF a < b THEN a ELSE b

\* s[i] of a Rust slice
At(s, i) == s[i + 1]
\* s[lo..hi] of a Rust slice
Slice(s, lo, hi) == SubSeq(s, lo + 1, hi)

\* Option<usize>::None
NoIdx == -1

\* iter().position(|elem| *elem == value)
Position(s, value) ==
    IF \E i \in 1..Len(s) : s[i] = value
    THEN (CHOOSE i \in 1..Len(s) : s[i] = value /\ \A j \in 1..(i - 1) : s[j] # value) - 1
    ELSE NoIdx

\* u16::from_le_bytes([lo, hi])
U16FromLeBytes(lo, hi) == lo + 256 * hi

\* the 8-bit two-accumulator running checksum: returns <<ck_a, ck_b>>
RECURSIVE CkFold(_, _, _, _)
CkFold(bytes, i, ck_a, ck_b) ==
    IF i > Len(bytes) THEN <<ck_a, ck_b>>
    ELSE LET a == (ck_a + bytes[i]) % 256
         IN CkFold(bytes, i + 1, a, (ck_b + a) % 256)

ubx_checksum(bytes) == CkFold(bytes, 1, 0, 0)

\* next()'s results.  None, and the three shapes of Some(..)
None == [tag |-> "None", x |-> 0, y |-> 0, data |-> <<>>]
OutOfMemory(required_size) ==
    [tag |-> "OutOfMemory", x |-> required_size, y |-> 0, data |-> <<>>]
InvalidChecksum(expect, got) ==
    [tag |-> "InvalidChecksum", x |-> expect, y |-> got, data |-> <<>>]
\* the dispatch collaborator's decoding of (class, id, payload)
match_packet(class_id, msg_id, msg_data) ==
    [tag |-> "Packet", x |-> class_id, y |-> msg_id, data |-> msg_data]

----------------------------------------------------------------------------
(* impl UnderlyingBuffer for Vec<u8>: buffer is the vector, len its length *)

Vec_new == [kind |-> "vec", buffer |-> <<>>, len |-> 0]

Vec_clear(b) == [b EXCEPT !.buffer = <<>>, !.len = 0]

Vec_len(b) == Len(b.buffer)

Vec_max_capacity(b) == USIZE_MAX

\* returns [buf, ret]: ret is the number of bytes not copied
Vec_extend_from_slice(b, other) ==
    [buf |-> [b EXCEPT !.buffer = b.buffer \o other, !.len = Len(b.buffer) + Len(other)],
     ret |-> 0]

\* Vec::drain(0..count) panics when count > len and removes nothing then
Vec_drain_panics(b, count) == count > Len(b.buffer)

Vec_drain_lazy(b, count) == b

Vec_drain(b, count) ==
    IF Vec_drain_panics(b, count) THEN b
    ELSE [b EXCEPT !.buffer = Slice(b.buffer, count, Len(b.buffer)),
                   !.len = Len(b.buffer) - count]

Vec_find(b, value) == Position(b.buffer, value)

----------------------------------------------------------------------------
(* FixedLinearBuffer: buffer is the caller's region, len the logical length *)

FixedLinearBuffer_new(region) == [kind |-> "fixed", buffer |-> region, len |-> 0]

FixedLinearBuffer_clear(b) == [b EXCEPT !.len = 0]

FixedLinearBuffer_len(b) == b.len

FixedLinearBuffer_max_capacity(b) == Len(b.buffer)

\* Index<Range<usize>>::index panics when index.end > self.len
FixedLinearBuffer_index_panics(b, lo, hi) == hi > b.len

\* for idx in 0..to_copy { self.buffer[idx + self.len] = other[idx]; }
RECURSIVE ExtendLoop(_, _, _, _, _)
ExtendLoop(buffer, len, other, idx, to_copy) ==
    IF idx >= to_copy THEN buffer
    ELSE ExtendLoop([buffer EXCEPT ![idx + len + 1] = At(other, idx)],
                    len, other, idx + 1, to_copy)

FixedLinearBuffer_extend_from_slice_unchecked(b, other) ==
    LET to_copy == Len(other)
    IN [buf |-> [b EXCEPT !.buffer = ExtendLoop(b.buffer, b.len, other, 0,
                                                Min(to_copy, Len(b.buffer) - b.len)),
                          !.len = b.len + to_copy],
        ret |-> 0]

FixedLinearBuffer_extend_from_slice(b, other) ==
    LET to_copy == Min(Len(other), Len(b.buffer) - b.len)
        uncopyable == Len(other) - to_copy
    IN [buf |-> [b EXCEPT !.buffer = ExtendLoop(b.buffer, b.len, other, 0, to_copy),
                          !.len = b.len + to_copy],
        ret |-> uncopyable]

\* for idx in 0..new_size { self.buffer[idx] = self.buffer[idx + count]; }
RECURSIVE DrainLoop(_, _, _, _)
DrainLoop(buffer, idx, new_size, count) ==
    IF idx >= new_size THEN buffer
    ELSE DrainLoop([buffer EXCEPT ![idx + 1] = At(buffer, idx + count)],
                   idx + 1, new_size, count)

FixedLinearBuffer_drain_noshift(b, count) ==
    IF count >= b.len THEN [b EXCEPT !.len = 0]
    ELSE [b EXCEPT !.len = b.len - count]

FixedLinearBuffer_drain(b, count) ==
    IF count >= b.len THEN [b EXCEPT !.len = 0]
    ELSE LET new_size == b.len - count
         IN [b EXCEPT !.buffer = DrainLoop(b.buffer, 0, new_size, count),
                      !.len = new_size]

\* for i in 0..self.len { if self.buffer[i] == value { return Some(i) } }
FixedLinearBuffer_find(b, value) == Position(Slice(b.buffer, 0, b.len), value)

----------------------------------------------------------------------------
(* The UnderlyingBuffer trait: dispatch on the implementation *)

clear(b) == IF b.kind = "vec" THEN Vec_clear(b) ELSE FixedLinearBuffer_clear(b)

len(b) == IF b.kind = "vec" THEN Vec_len(b) ELSE FixedLinearBuffer_len(b)

max_capacity(b) ==
    IF b.kind = "vec" THEN Vec_max_capacity(b) ELSE FixedLinearBuffer_max_capacity(b)

extend_from_slice(b, other) ==
    IF b.kind = "vec" THEN Vec_extend_from_slice(b, other)
    ELSE FixedLinearBuffer_extend_from_slice(b, other)

drain_panics(b, count) == b.kind = "vec" /\ Vec_drain_panics(b, count)

drain(b, count) ==
    IF b.kind = "vec" THEN Vec_drain(b, count) ELSE FixedLinearBuffer_drain(b, count)

find(b, value) ==
    IF b.kind = "vec" THEN Vec_find(b, value) ELSE FixedLinearBuffer_find(b, value)

is_empty(b) == len(b) = 0

\* self.buf[lo..hi]
index(b, lo, hi) == Slice(b.buffer, lo, hi)

index_panics(b, lo, hi) ==
    IF b.kind = "vec" THEN lo > hi \/ hi > Len(b.buffer)
    ELSE FixedLinearBuffer_index_panics(b, lo, hi) \/ lo > hi

\* the logical content buf[0..len]
Content(b) == index(b, 0, len(b))

----------------------------------------------------------------------------
(* Parser::consume: returns [buf, off], the buffer afterwards and the      *)
(* cursor of the ParserIter it builds                                      *)

\* start_idx: Some(idx) of the buffer, else the position in new_data plus len
StartIdx(b, new_data) ==
    IF find(b, SYNC_CHAR_1) # NoIdx THEN find(b, SYNC_CHAR_1)
    ELSE IF Position(new_data, SYNC_CHAR_1) # NoIdx
         THEN Position(new_data, SYNC_CHAR_1) + len(b)
         ELSE NoIdx

Parser_consume_noclear(b, new_data) ==
    LET start_idx == StartIdx(b, new_data)
    IN IF start_idx # NoIdx
       THEN IF start_idx >= len(b)
            THEN LET off == start_idx - len(b)
                 IN [buf |-> extend_from_slice(b, Slice(new_data, off, Len(new_data))).buf,
                     off |-> 0]
            ELSE [buf |-> extend_from_slice(b, new_data).buf, off |-> start_idx]
       ELSE [buf |-> b, off |-> 0]

Parser_consume(b, new_data) ==
    LET start_idx == StartIdx(b, new_data)
    IN IF start_idx # NoIdx
       THEN IF start_idx >= len(b)
            THEN LET off == start_idx - len(b)
                 IN [buf |-> extend_from_slice(clear(b),
                                Slice(new_data, off, Len(new_data))).buf,
                     off |-> 0]
            ELSE [buf |-> extend_from_slice(b, new_data).buf, off |-> start_idx]
       ELSE [buf |-> clear(b), off |-> 0]

----------------------------------------------------------------------------
(* ParserIter::next: returns [off, res], the cursor afterwards and the     *)
(* result.  The buffer is only read.                                       *)

\* the bytes the checksum covers: maybe_pack[2..(4 + pack_len + 2)]
ChecksumRange_nolen(maybe_pack, pack_len) == Slice(maybe_pack, 2, 4 + pack_len)

ChecksumRange(maybe_pack, pack_len) == Slice(maybe_pack, 2, 4 + pack_len + 2)

\* the cursor after a frame that passed its checksum
FrameEnd_plus(off, pos, pack_len) == off + pos + 6 + pack_len + 2 + 1

FrameEnd(off, pos, pack_len) == off + pos + 6 + pack_len + 2

\* self.off += pos + 2: the cursor past the two sync bytes of a candidate
SkipSync_one(off, pos) == off + pos + 1

SkipSync(off, pos) == off + pos + 2

\* return None for lack of data: self.off is left as it is
Stall_skip(off, pos) == off + pos + 2

Stall(off, pos) == off

\* pack_len > usize::from(MAX_PAYLOAD_LEN): the candidate is a false positive
IsFalsePositive_never(pack_len) == FALSE

IsFalsePositive(pack_len) == pack_len > MAX_PAYLOAD_LEN

RECURSIVE ParserIter_next(_, _)
ParserIter_next(b, off) ==
    IF ~(off < len(b)) THEN [off |-> off, res |-> None]
    ELSE
    LET data == index(b, off, len(b))
        pos == Position(data, SYNC_CHAR_1)
    IN
    IF pos = NoIdx THEN [off |-> off, res |-> None]
    ELSE
    LET maybe_pack == Slice(data, pos, Len(data))
    IN
    IF Len(maybe_pack) <= 1 THEN [off |-> off, res |-> None]
    ELSE IF At(maybe_pack, 1) # SYNC_CHAR_2 THEN ParserIter_next(b, SkipSync(off, pos))
    ELSE IF Len(maybe_pack) <= 5 THEN [off |-> Stall(off, pos), res |-> None]
    ELSE
    LET pack_len == U16FromLeBytes(At(maybe_pack, 4), At(maybe_pack, 5))
    IN
    IF (pack_len + 6 + 2) > max_capacity(b)
    THEN [off |-> SkipSync(off, pos), res |-> OutOfMemory(pack_len + 6 + 2)]
    ELSE IF IsFalsePositive(pack_len) THEN ParserIter_next(b, SkipSync(off, pos))
    ELSE IF (pack_len + 6 + 2) > Len(maybe_pack)
    THEN [off |-> Stall(off, pos), res |-> None]
    ELSE
    LET ck == ubx_checksum(ChecksumRange(maybe_pack, pack_len))
        expect_ck_a == At(maybe_pack, 6 + pack_len)
        expect_ck_b == At(maybe_pack, 6 + pack_len + 1)
    IN
    IF ck # <<expect_ck_a, expect_ck_b>>
    THEN [off |-> SkipSync(off, pos),
          res |-> InvalidChecksum(U16FromLeBytes(expect_ck_a, expect_ck_b),
                                  U16FromLeBytes(ck[1], ck[2]))]
    ELSE
    LET msg_data == Slice(maybe_pack, 6, 6 + pack_len)
        class_id == At(maybe_pack, 2)
        msg_id == At(maybe_pack, 3)
    IN [off |-> FrameEnd(off, pos, pack_len),
        res |-> match_packet(class_id, msg_id, msg_data)]

\* the slice next() takes first, self.buf[self.off..self.buf.len()], panics
\* when the cursor is beyond the logical length
ParserIter_next_panics(b, off) ==
    off < len(b) /\ index_panics(b, off, len(b))

----------------------------------------------------------------------------
(* Drop for ParserIter: returns the buffer afterwards *)

ParserIter_drop_panics(b, off) == off <= len(b) /\ drain_panics(b, off)

ParserIter_drop_strict(b, off) == IF off < len(b) THEN drain(b, off) ELSE b

ParserIter_drop_clear(b, off) == clear(b)

ParserIter_drop(b, off) == IF off <= len(b) THEN drain(b, off) ELSE b

----------------------------------------------------------------------------
(* The transport: the byte sequences a run delivers *)

\* a complete frame: sync bytes, class, id, little-endian length, payload,
\* checksum over class..payload
MkFrame(class_id, msg_id, payload) ==
    LET body == <<class_id, msg_id, Len(payload) % 256, Len(payload) \div 256>> \o payload
        ck == ubx_checksum(body)
    IN <<SYNC_CHAR_1, SYNC_CHAR_2>> \o body \o <<ck[1], ck[2]>>

\* the 10-byte AckAck frame of the tests
FrameAck == <<181, 98, 5, 1, 2, 0, 4, 5, 17, 56>>
\* an 8-byte frame with an empty payload
FrameEmpty == MkFrame(5, 0, <<>>)
\* 13-byte frames, larger than every capacity of FixedCaps; the second has
\* a sync byte inside its payload
FrameBig == MkFrame(6, 36, <<1, 0, 6, 2, 34>>)
FrameBigSync == MkFrame(6, 36, <<1, 0, 6, 181, 33>>)
\* a header whose declared length, 98 * 256, is above MAX_PAYLOAD_LEN
HdrHuge == <<181, 98, 5, 1, 0, 98>>

ValidFrames == {FrameAck, FrameEmpty, FrameBig, FrameBigSync}

Segs == ValidFrames \cup {HdrHuge, <<SYNC_CHAR_1>>}

NoiseBytes == {SYNC_CHAR_1, SYNC_CHAR_2, 0}

\* frame with the byte at index i replaced by v
Corrupt(frame, i, v) == [frame EXCEPT ![i + 1] = v]

\* the indices of class, id, payload and checksum bytes of a frame
CorruptibleIdx(frame) == {2, 3} \cup (6..(Len(frame) - 1))

CorruptValues == {SYNC_CHAR_1, 255}

CorruptFrames ==
    {Corrupt(FrameAck, i, v) : i \in CorruptibleIdx(FrameAck), v \in CorruptValues}

\* a frame whose second checksum byte is off by one
BadFrame(class_id, msg_id, payload) ==
    LET f == MkFrame(class_id, msg_id, payload)
    IN Corrupt(f, Len(f) - 1, (f[Len(f)] + 1) % 256)

\* the bytes that precede the frame carried inside a payload
NestPrefixes == {<<>>, <<0>>, <<SYNC_CHAR_1>>}

\* frames with a bad checksum whose payload carries a whole valid frame
NestedFrames == {BadFrame(5, 1, g \o FrameEmpty) : g \in NestPrefixes}

SeqsUpTo(S, n) == UNION {[1..k -> S] : k \in 0..n}

RECURSIVE Concat(_)
Concat(ss) == IF ss = <<>> THEN <<>> ELSE Head(ss) \o Concat(Tail(ss))

Repeat(s, n) == Concat([i \in 1..n |-> s])

Candidates ==
    SeqsUpTo(NoiseBytes, MaxNoise)
    \cup {Concat(ss) : ss \in SeqsUpTo(Segs, MaxSegs)}
    \cup {c \o f : c \in CorruptFrames, f \in {FrameAck, FrameEmpty}}
    \cup NestedFrames

Inputs == {w \in Candidates : Len(w) <= MaxInput}

\* the sizes of the regions given to FixedLinearBuffer::new
FixedCaps == {10, 12}

InitialBufs ==
    {Vec_new} \cup {FixedLinearBuffer_new([i \in 1..c |-> 0]) : c \in FixedCaps}

\* the parser and the input of test parser_oom_processes_multiple_small_packets
TestedRun ==
    [buf |-> FixedLinearBuffer_new([i \in 1..10 |-> 0]), whole |-> Repeat(FrameAck, 5)]

\* a run: a fresh parser and the bytes it will be fed
Runs == [buf : InitialBufs, whole : Inputs] \cup {TestedRun}

\* the lengths of the next slice handed to consume: up to MaxChunk bytes,
\* the segment the stream begins with, or all that is left
ChunkSizes ==
    (0..Min(MaxChunk, Len(stream)))
    \cup {k \in 1..Len(stream) : Slice(stream, 0, k) \in Segs \cup CorruptFrames}
    \cup {Len(stream)}

NoIter == [live |-> FALSE, off |-> 0, none |-> FALSE]

NoOp == [op |-> "new", pre |-> <<>>, arg |-> <<>>, res |-> None, n |-> 0]

----------------------------------------------------------------------------
(* The parser fed by the transport *)

Init ==
    /\ \E run \in Runs : buf = run.buf /\ whole = run.whole
    /\ iter = NoIter
    /\ stream = whole
    /\ out = <<>>
    /\ calls = 0
    /\ exhausted = TRUE
    /\ last = NoOp
    /\ fault = FALSE

\* let mut it = parser.consume(&stream[..k]);
Consume(k) ==
    /\ ~fault
    /\ ~iter.live
    /\ LET new_data == Slice(stream, 0, k)
           r == Parser_consume(buf, new_data)
       IN /\ buf' = r.buf
          /\ iter' = [live |-> TRUE, off |-> r.off, none |-> FALSE]
          /\ stream' = Slice(stream, k, Len(stream))
          /\ calls' = Min(calls + 1, 2)
          /\ last' = [op |-> "consume", pre |-> Content(buf), arg |-> new_data,
                      res |-> None, n |-> r.off]
    /\ UNCHANGED <<whole, out, exhausted, fault>>

\* it.next()
IterNext ==
    /\ ~fault
    /\ iter.live
    /\ IF ParserIter_next_panics(buf, iter.off)
       THEN /\ fault' = TRUE
            /\ UNCHANGED <<iter, out, last>>
       ELSE LET r == ParserIter_next(buf, iter.off)
            IN /\ iter' = [live |-> TRUE, off |-> r.off,
                           none |-> iter.none \/ r.res = None]
               /\ out' = IF r.res = None THEN out ELSE Append(out, r.res)
               /\ last' = [op |-> "next", pre |-> Content(buf), arg |-> <<>>,
                           res |-> r.res, n |-> iter.off]
               /\ UNCHANGED fault
    /\ UNCHANGED <<buf, stream, whole, calls, exhausted>>

\* the iterator goes out of scope
IterDrop ==
    /\ ~fault
    /\ iter.live
    /\ fault' = ParserIter_drop_panics(buf, iter.off)
    /\ buf' = ParserIter_drop(buf, iter.off)
    /\ iter' = NoIter
    /\ exhausted' = (exhausted /\ iter.none)
    /\ last' = [op |-> "drop", pre |-> Content(buf), arg |-> <<>>,
                res |-> None, n |-> iter.off]
    /\ UNCHANGED <<stream, whole, out, calls>>

Next ==
    \/ \E k \in ChunkSizes : Consume(k)
    \/ IterNext
    \/ IterDrop

Spec == Init /\ [][Next]_vars

\* the parser over the smallest regions its documentation allows (4 bytes)
MinCaps == {4, 5}

MinInit ==
    /\ \E c \in MinCaps : buf = FixedLinearBuffer_new([i \in 1..c |-> 0])
    /\ iter = NoIter
    /\ whole \in Inputs
    /\ stream = whole
    /\ out = <<>>
    /\ calls = 0
    /\ exhausted = TRUE
    /\ last = NoOp
    /\ fault = FALSE

MinSpec == MinInit /\ [][Next]_vars

----------------------------------------------------------------------------
(* The buffers used directly through the UnderlyingBuffer trait *)

DataBytes == {1, 2}

BufInit ==
    /\ buf \in {Vec_new, FixedLinearBuffer_new([i \in 1..MaxRegion |-> 0])}
    /\ iter = NoIter
    /\ whole = <<>>
    /\ stream = <<>>
    /\ out = <<>>
    /\ calls = 0
    /\ exhausted = TRUE
    /\ last = NoOp
    /\ fault = FALSE

\* buf.extend_from_slice(other)
BufExtend(other) ==
    /\ ~fault
    /\ buf.kind = "vec" => len(buf) + Len(other) <= MaxVecLen
    /\ LET r == extend_from_slice(buf, other)
       IN /\ buf' = r.buf
          /\ last' = [op |-> "extend", pre |-> Content(buf), arg |-> other,
                      res |-> None, n |-> r.ret]
    /\ UNCHANGED <<iter, stream, whole, out, calls, exhausted, fault>>

\* buf.drain(count)
BufDrain(count) ==
    /\ ~fault
    /\ fault' = drain_panics(buf, count)
    /\ buf' = drain(buf, count)
    /\ last' = [op |-> "drain", pre |-> Content(buf), arg |-> <<>>,
                res |-> None, n |-> count]
    /\ UNCHANGED <<iter, stream, whole, out, calls, exhausted>>

\* buf.clear()
BufClear ==
    /\ ~fault
    /\ buf' = clear(buf)
    /\ last' = [op |-> "clear", pre |-> Content(buf), arg |-> <<>>,
                res |-> None, n |-> 0]
    /\ UNCHANGED <<iter, stream, whole, out, calls, exhausted, fault>>

BufNext ==
    \/ \E other \in SeqsUpTo(DataBytes, MaxSlice) : BufExtend(other)
    \/ \E count \in 0..(MaxVecLen + 1) : BufDrain(count)
    \/ BufClear

BufSpec == BufInit /\ [][BufNext]_vars

----------------------------------------------------------------------------
(* What the properties below compare the runs with *)

\* the results of pulling an iterator at cursor off until it returns None
RECURSIVE PullAll(_, _)
PullAll(b, off) ==
    LET r == ParserIter_next(b, off)
    IN IF r.res = None THEN <<>> ELSE <<r.res>> \o PullAll(b, r.off)

\* a parser of the same configuration as b, newly built
Fresh(b) ==
    IF b.kind = "vec" THEN Vec_new
    ELSE FixedLinearBuffer_new([i \in 1..Len(b.buffer) |-> 0])

\* the results of a fresh parser given the whole input in one consume call
RunWhole(b, input) ==
    LET r == Parser_consume(Fresh(b), input)
    IN PullAll(r.buf, r.off)

\* the message a valid frame carries: its class, id and payload
Decode(frame) == match_packet(At(frame, 2), At(frame, 3), Slice(frame, 6, Len(frame) - 2))

\* the declared payload length of a header
DeclaredLen(frame) == U16FromLeBytes(At(frame, 4), At(frame, 5))

Expected(ss) == [i \in 1..Len(ss) |-> Decode(ss[i])]

FrameSeqs == {ss \in SeqsUpTo(ValidFrames, MaxSegs) : ss # <<>>}

CountTag(results, tag) == Cardinality({i \in 1..Len(results) : results[i].tag = tag})

Yielded(results, r) == \E i \in 1..Len(results) : results[i] = r

HasSync(bytes) == Position(bytes, SYNC_CHAR_1) # NoIdx

\* every byte was handed over, every iterator pulled until None and dropped
RunOver == stream = <<>> /\ ~iter.live /\ exhausted /\ calls >= 1

----------------------------------------------------------------------------
(* C1: chunk-boundary invariance, both buffer implementations: however the  *)
(* input is split into consume calls, with every iterator pulled until None *)
(* and dropped, the results are those of one consume call of the whole      *)
(* input on a fresh parser of the same configuration.                       *)
C1_ChunkInvariance == RunOver => out = RunWhole(buf, whole)

(* C2: a fixed-capacity parser given n valid frames, each no larger than    *)
(* the capacity, in ONE consume call yields the n messages in order and     *)
(* then None (tested: capacity 10, five copies of the 10-byte AckAck).      *)
C2_FixedManyFrames ==
    \A ss \in FrameSeqs \cup {[i \in 1..5 |-> FrameAck]} :
        ( /\ buf.kind = "fixed"
          /\ \A i \in 1..Len(ss) : Len(ss[i]) <= max_capacity(buf)
          /\ whole = Concat(ss)
          /\ calls = 1 /\ stream = <<>>
          /\ iter.live /\ iter.none )
        => out = Expected(ss)

(* C3: fixed capacity C, a candidate declaring L with L + 8 > C: exactly    *)
(* one OutOfMemory with required_size = L + 8 is yielded for it, and once   *)
(* the iterators were drained and dropped, a later consume call carrying a  *)
(* complete valid frame no larger than C yields that frame's message.       *)
C3_OomThenValid ==
    \A big \in {FrameBig, FrameBigSync, HdrHuge}, f \in ValidFrames :
        ( /\ buf.kind = "fixed"
          /\ DeclaredLen(big) + 8 > max_capacity(buf)
          /\ Len(f) <= max_capacity(buf)
          /\ whole = big \o f
          /\ exhausted /\ stream = <<>>
          /\ last.op = "consume" /\ last.arg = f )
        => /\ CountTag(out, "OutOfMemory") = 1
           /\ Yielded(out, OutOfMemory(DeclaredLen(big) + 8))
           /\ Yielded(PullAll(buf, iter.off), Decode(f))

(* C4: fixed capacity, a single valid frame larger than the capacity: once  *)
(* OutOfMemory was yielded and the iterator drained to None and dropped,    *)
(* buffer_len() = 0 before the next consume call.                           *)
C4_OomLeavesEmpty ==
    \A big \in {FrameBig, FrameBigSync} :
        ( /\ buf.kind = "fixed"
          /\ Len(big) > max_capacity(buf)
          /\ whole = big
          /\ calls = 1 /\ RunOver
          /\ Yielded(out, OutOfMemory(Len(big))) )
        => len(buf) = 0

(* C5: a frame with one byte of class, id, payload or checksum corrupted    *)
(* yields exactly one InvalidChecksum, and the valid frame right after it,  *)
(* in the same consume call or in a later one, is yielded as a message.     *)
(* Stated for the growable buffer, where no byte of the input is truncated. *)
C5_ChecksumRecovery ==
    \A c \in CorruptFrames, f \in {FrameAck, FrameEmpty} :
        ( /\ buf.kind = "vec"
          /\ whole = c \o f
          /\ exhausted /\ stream = <<>>
          /\ last.op = "consume"
          /\ \/ last.arg = f
             \/ last.arg = c \o f /\ calls = 1 )
        => LET results == out \o PullAll(buf, iter.off)
           IN /\ CountTag(results, "InvalidChecksum") = 1
              /\ Yielded(results, Decode(f))

(* C6: a fresh growable-buffer parser given n >= 1 complete valid frames in *)
(* one consume call yields exactly n results, the i-th the decoding of the  *)
(* i-th frame, and every further next() returns None.                       *)
C6_MultiplePackets ==
    ( /\ buf.kind = "vec"
      /\ calls = 1 /\ stream = <<>>
      /\ iter.live )
    => \A ss \in FrameSeqs :
           whole = Concat(ss)
           => /\ Len(out) <= Len(ss)
              /\ out = SubSeq(Expected(ss), 1, Len(out))
              /\ iter.none => out = Expected(ss)
              /\ ParserIter_next(buf, iter.off).res =
                     IF Len(out) < Len(ss) THEN Expected(ss)[Len(out) + 1] ELSE None

C6_Witness ==
    /\ buf.kind = "vec"
    /\ whole = FrameAck \o FrameEmpty
    /\ calls = 1 /\ stream = <<>>
    /\ iter.live /\ iter.none
    /\ out = <<Decode(FrameAck), Decode(FrameEmpty)>>

(* C7: a FixedLinearBuffer, after any extend_from_slice, drain and clear    *)
(* operations, has len() <= max_capacity(); and extend_from_slice(other)    *)
(* returns a count that, added to the growth of len(), is other.len(), the  *)
(* stored bytes being that many first bytes of other after the old content. *)
C7_FixedBounded ==
    buf.kind = "fixed" =>
        /\ len(buf) <= max_capacity(buf)
        /\ last.op = "extend" =>
            /\ last.n + (len(buf) - Len(last.pre)) = Len(last.arg)
            /\ Content(buf) = last.pre \o Slice(last.arg, 0, Len(last.arg) - last.n)

C7_Witness ==
    /\ buf.kind = "fixed"
    /\ last.op = "extend"
    /\ last.n > 0
    /\ len(buf) > Len(last.pre)
    /\ Len(last.pre) > 0

(* C8 as stated: for both implementations and every count, drain(count)    *)
(* with count >= len() empties the buffer without faulting, and with        *)
(* count < len() leaves content[count..] from index 0 on, so that bytes     *)
(* appended afterwards follow that suffix.                                  *)
C8_DrainEveryCount ==
    /\ last.op = "drain" =>
        /\ ~fault
        /\ last.n >= Len(last.pre) => len(buf) = 0
        /\ last.n < Len(last.pre) =>
               Content(buf) = Slice(last.pre, last.n, Len(last.pre))
    /\ last.op = "extend" =>
           Slice(Content(buf), 0, Len(last.pre)) = last.pre

(* C8 amended: the same for FixedLinearBuffer and every count and for       *)
(* Vec<u8> and every count <= len(); Vec<u8>::drain(count) with             *)
(* count > len() panics.                                                    *)
C8_DrainAmended ==
    /\ last.op = "drain" =>
        IF buf.kind = "vec" /\ last.n > Len(last.pre)
        THEN fault
        ELSE /\ ~fault
             /\ last.n >= Len(last.pre) => len(buf) = 0
             /\ last.n < Len(last.pre) =>
                    Content(buf) = Slice(last.pre, last.n, Len(last.pre))
    /\ last.op = "extend" =>
           Slice(Content(buf), 0, Len(last.pre)) = last.pre

C8_Witness ==
    /\ buf.kind = "fixed"
    /\ last.op = "drain"
    /\ 0 < last.n /\ last.n < Len(last.pre)
    /\ Content(buf) = Slice(last.pre, last.n, Len(last.pre))
    /\ len(buf) >= 2

(* C9: when the buffer holds no 0xB5 at a consume(new_bytes) call, none of  *)
(* the buffered bytes remain: with 0xB5 first at index k of new_bytes the   *)
(* buffer holds the bytes of new_bytes[k..] that fit and the cursor is 0;   *)
(* with no 0xB5 in new_bytes the buffer is empty and next() returns None.   *)
C9_NoSyncCleared ==
    (last.op = "consume" /\ ~HasSync(last.pre)) =>
        LET k == Position(last.arg, SYNC_CHAR_1)
            kept == Slice(last.arg, k, Len(last.arg))
        IN IF k # NoIdx
           THEN /\ iter.off = 0
                /\ len(buf) = Min(Len(kept), max_capacity(buf))
                /\ Content(buf) = Slice(kept, 0, len(buf))
           ELSE /\ len(buf) = 0
                /\ ParserIter_next(buf, iter.off).res = None

C9_Witness ==
    /\ last.op = "consume"
    /\ last.pre # <<>> /\ ~HasSync(last.pre)
    /\ Position(last.arg, SYNC_CHAR_1) > 0
    /\ len(buf) > 0

(* C10: when the buffer holds 0xB5 at offset off, consume(new_bytes)        *)
(* appends ALL of new_bytes: the content afterwards is the content before   *)
(* followed by every byte of new_bytes, and the cursor is off.              *)
C10_AppendsAll ==
    (last.op = "consume" /\ HasSync(last.pre)) =>
        /\ Content(buf) = last.pre \o last.arg
        /\ iter.off = Position(last.pre, SYNC_CHAR_1)

----------------------------------------------------------------------------
\* the cursor of an iterator at cursor off once it was pulled until None
RECURSIVE PullOff(_, _)
PullOff(b, off) ==
    LET r == ParserIter_next(b, off)
    IN IF r.res = None THEN r.off ELSE PullOff(b, r.off)

\* consume(new_data) on buffer b, the iterator pulled until None and dropped:
\* [results, buf]
ConsumeDrained(b, new_data) ==
    LET r == Parser_consume(b, new_data)
    IN [results |-> PullAll(r.buf, r.off),
        buf |-> ParserIter_drop(r.buf, PullOff(r.buf, r.off))]

(* C11: a fixed-capacity parser over a region of at least 4 bytes never     *)
(* gets stuck: whenever the buffer is full, a consume call whose iterator   *)
(* is pulled until None and dropped yields a result or leaves the buffer    *)
(* shorter than its capacity.                                               *)
C11_ForwardProgress ==
    ( /\ buf.kind = "fixed"
      /\ max_capacity(buf) >= 4
      /\ ~iter.live
      /\ len(buf) = max_capacity(buf) )
    => \A k \in ChunkSizes :
           LET after == ConsumeDrained(buf, Slice(stream, 0, k))
           IN after.results # <<>> \/ len(after.buf) < max_capacity(buf)

(* C12: whenever an iterator is dropped, at whatever cursor position, the
   buffer afterwards holds exactly the bytes it held before with the first
   off bytes removed, in order, and the drain does not panic. *)
C12_DropDrainsPrefix ==
    last.op = "drop" =>
        /\ ~fault
        /\ last.n <= Len(last.pre)
        /\ Content(buf) = Slice(last.pre, last.n, Len(last.pre))

\* an iterator dropped early, its cursor strictly inside the buffer
C12_Witness ==
    /\ last.op = "drop"
    /\ ~exhausted
    /\ 0 < last.n
    /\ last.n < Len(last.pre)
    /\ Content(buf) = Slice(last.pre, last.n, Len(last.pre))

(* C13: every next() call that returns a message or an error has moved the
   cursor forward by at least 2, the results still to come from any state
   of an iterator are finitely many (at most one per two bytes between the
   cursor and the end of the buffer), and once next() has returned None a further next() on the same
   iterator returns None again and leaves cursor and buffer as they are. *)
C13_FiniteNonRestartable ==
    /\ (last.op = "next" /\ last.res # None) =>
           /\ iter.off >= last.n + 2
           /\ iter.off <= len(buf)
           /\ Content(buf) = last.pre
    /\ (iter.live /\ iter.none) =>
           /\ ~ParserIter_next_panics(buf, iter.off)
           /\ ParserIter_next(buf, iter.off) = [off |-> iter.off, res |-> None]
    /\ (last.op = "next" /\ iter.none) => Content(buf) = last.pre
    /\ iter.live => 2 * Len(PullAll(buf, iter.off)) <= len(buf) - iter.off

\* an iterator that yielded an error, then a message, then None twice
C13_Witness ==
    /\ iter.live
    /\ iter.none
    /\ last.op = "next"
    /\ last.res = None
    /\ last.n = iter.off
    /\ Len(out) >= 2
    /\ out[1].tag # "Packet"

(* C14: when next() yields InvalidChecksum the cursor is exactly 2 past the
   first sync byte of the candidate whose checksum failed, and every
   complete valid frame that starts inside the range that candidate
   claimed, after its two sync bytes, is yielded as a message by the later
   next() calls of the same iterator. *)
C14_ChecksumResync ==
    (last.op = "next" /\ last.res.tag = "InvalidChecksum") =>
        LET c == iter.off - 2
            pack_len == U16FromLeBytes(At(last.pre, c + 4), At(last.pre, c + 5))
        IN /\ c >= last.n
           /\ At(last.pre, c) = SYNC_CHAR_1
           /\ At(last.pre, c + 1) = SYNC_CHAR_2
           /\ c + pack_len + 8 <= Len(last.pre)
           /\ last.res.x = U16FromLeBytes(At(last.pre, c + 6 + pack_len),
                                          At(last.pre, c + 7 + pack_len))
           /\ \A f \in ValidFrames : \A i \in (c + 2)..(c + pack_len + 7) :
                  ( /\ i + Len(f) <= Len(last.pre)
                    /\ Slice(last.pre, i, i + Len(f)) = f )
                  => Yielded(PullAll(buf, iter.off), Decode(f))

\* a candidate with both sync bytes and six bytes at index c of bytes, its
\* declared length above the protocol maximum
OversizedAt(bytes, c) ==
    /\ c + 6 <= Len(bytes)
    /\ At(bytes, c) = SYNC_CHAR_1
    /\ At(bytes, c + 1) = SYNC_CHAR_2
    /\ U16FromLeBytes(At(bytes, c + 4), At(bytes, c + 5)) > MAX_PAYLOAD_LEN

(* C15 as stated: a next() call that begins at a candidate whose declared
   length exceeds MAX_PAYLOAD_LEN yields no OutOfMemory error and has the
   outcome of a scan resumed 2 bytes further on, for every parser
   configuration. *)
C15_OversizedSkipped ==
    (last.op = "next" /\ OversizedAt(last.pre, last.n)) =>
        /\ last.res.tag # "OutOfMemory"
        /\ [off |-> iter.off, res |-> last.res] = ParserIter_next(buf, last.n + 2)

(* C15 amended: a next() call that begins at a candidate whose declared
   length L exceeds MAX_PAYLOAD_LEN has the outcome of a scan resumed 2
   bytes further on, with no error for the candidate, when L + 8 is within
   max_capacity (always, for Vec<u8>); when L + 8 exceeds max_capacity it
   yields OutOfMemory{L + 8} and leaves the cursor 2 past the candidate. *)
C15_OversizedAmended ==
    (last.op = "next" /\ OversizedAt(last.pre, last.n)) =>
        LET pack_len == U16FromLeBytes(At(last.pre, last.n + 4),
                                       At(last.pre, last.n + 5))
        IN IF pack_len + 8 > max_capacity(buf)
           THEN /\ last.res = OutOfMemory(pack_len + 8)
                /\ iter.off = last.n + 2
           ELSE /\ iter.off >= last.n + 2
                /\ [off |-> iter.off, res |-> last.res]
                       = ParserIter_next(buf, last.n + 2)

\* an oversized header skipped without an error, and the frame behind it
\* yielded by the same call
C15_Witness ==
    /\ last.op = "next"
    /\ OversizedAt(last.pre, last.n)
    /\ U16FromLeBytes(At(last.pre, last.n + 4), At(last.pre, last.n + 5)) + 8
           <= max_capacity(buf)
    /\ last.res.tag = "Packet"
    /\ out = <<last.res>>
    /\ iter.off > last.n + 2

\* the corrupted bytes of C16: a stray sync byte, an oversized header, a
\* frame with a bad checksum
Garbage == {<<SYNC_CHAR_1>>, HdrHuge} \cup CorruptFrames

(* C16: a Vec<u8> parser given, in one consume call, corrupted bytes (a
   stray 0xB5 not followed by 0x62, an oversized header, or a frame with a
   bad checksum) followed by a complete valid frame yields, pulled until
   None, the message of that valid frame. *)
C16_ResyncKeepsFrame ==
    \A g \in Garbage : \A f \in {FrameAck, FrameEmpty} :
        ( /\ buf.kind = "vec"
          /\ whole = g \o f
          /\ last.op = "next"
          /\ last.pre = whole
          /\ iter.none )
        => Yielded(out, Decode(f))

\* the index of the candidate for which a scan that starts at off, with no
\* false sync to skip, ends for lack of data: a candidate with both sync
\* bytes and fewer than 6 bytes, or one whose frame is not yet whole;
\* NoIdx when the scan does not end that way
StalledCandidate(b, off) ==
    LET data == Slice(Content(b), off, len(b))
        pos == Position(data, SYNC_CHAR_1)
        avail == Len(data) - pos
    IN IF pos = NoIdx \/ avail < 2 THEN NoIdx
       ELSE IF At(data, pos + 1) # SYNC_CHAR_2 THEN NoIdx
       ELSE IF avail <= 5 THEN off + pos
       ELSE LET pack_len == U16FromLeBytes(At(data, pos + 4), At(data, pos + 5))
            IN IF /\ pack_len + 8 <= max_capacity(b)
                  /\ pack_len <= MAX_PAYLOAD_LEN
                  /\ pack_len + 8 > avail
               THEN off + pos
               ELSE NoIdx

(* C17: when next() returns None because a candidate with both sync bytes
   has fewer than 6 bytes in the buffer, or its whole frame is not yet in
   the buffer, the cursor is the index of the candidate's first sync byte,
   and dropping the iterator leaves a buffer that begins with that 0xB5 and
   is the candidate's bytes to the end of the buffer. *)
C17_StallAtCandidate ==
    ( /\ last.op = "next"
      /\ last.res = None
      /\ iter.off <= len(buf)
      /\ StalledCandidate(buf, iter.off) # NoIdx )
    => LET cand == StalledCandidate(buf, iter.off)
           after == ParserIter_drop(buf, iter.off)
       IN /\ iter.off = cand
          /\ At(Content(after), 0) = SYNC_CHAR_1
          /\ Content(after) = Slice(Content(buf), cand, len(buf))

(* C18: in every state of a live iterator, after any number k of results
   pulled from it, dropping it and calling consume with an empty slice
   gives an iterator that yields, pulled until None, exactly the results
   the dropped iterator had still to yield, in the same order. *)
C18_EarlyDropSafe ==
    iter.live =>
        LET dropped == ParserIter_drop(buf, iter.off)
            again == Parser_consume(dropped, <<>>)
        IN /\ ~ParserIter_drop_panics(buf, iter.off)
           /\ PullAll(again.buf, again.off) = PullAll(buf, iter.off)

\* an iterator dropped after its first result, with results still to come,
\* and consume called with an empty slice after it
C18_Witness ==
    /\ last.op = "consume"
    /\ last.arg = <<>>
    /\ ~exhausted
    /\ Len(out) = 1
    /\ Len(last.pre) < Len(whole)
    /\ stream = <<>>
    /\ PullAll(buf, iter.off) # <<>>

(* C19: in every reachable state the cursor of the iterator is between 0 and
   the length of the buffer, for both buffer implementations: the guard of
   drop is true, drain is not called with a count above the length and does
   not panic, and the slice next() takes of the buffer is within its
   logical length. *)
C19_CursorBound ==
    /\ ~fault
    /\ iter.off >= 0
    /\ iter.off <= len(buf)
    /\ iter.live =>
           /\ ~ParserIter_next_panics(buf, iter.off)
           /\ ~ParserIter_drop_panics(buf, iter.off)
           /\ ~drain_panics(buf, iter.off)
           /\ ~index_panics(buf, iter.off, len(buf))

\* a next() call that yielded a message and left the cursor at the very end
\* of a buffer holding more than that frame
C19_Witness ==
    /\ iter.live
    /\ last.op = "next"
    /\ last.res.tag = "Packet"
    /\ last.n > 0
    /\ iter.off = len(buf)
    /\ Len(out) >= 2

(* C20: for a fresh Vec<u8> parser, every input and every split of it into
   chunks, with each iterator pulled until None and then dropped, the
   results of all the calls together are those of one consume call given
   the whole input; and a frame split in two at any byte is yielded by the
   call that brings its last byte, once, and by no call before it. *)
C20_VecChunkInvariance ==
    /\ (buf.kind = "vec" /\ RunOver) => out = RunWhole(buf, whole)
    /\ \A f \in ValidFrames :
           ( /\ buf.kind = "vec"
             /\ whole = f
             /\ exhausted
             /\ last.op = "consume"
             /\ stream = <<>>
             /\ last.arg # <<>> )
           => /\ out = <<>>
              /\ PullAll(buf, iter.off) = <<Decode(f)>>

\* a run over: an input of a corrupted frame and a valid one, fed in more
\* than one call, gave an error and then the message
C20_Witness ==
    /\ buf.kind = "vec"
    /\ RunOver
    /\ calls = 2
    /\ Len(out) >= 2
    /\ out[Len(out)].tag = "Packet"
    /\ out = RunWhole(buf, whole)

============================================================================
